---- MODULE Spec2Model ----
(***************************************************************************)
(* Model of mock-line-survival-server.py: an HTTP server whose handler     *)
(* LineSurvivalHandler answers POST /predict with one pseudo-probability   *)
(* per line of the request, and OPTIONS with the CORS headers.             *)
(*                                                                         *)
(* Text is a sequence of one-character strings, so that strip(),           *)
(* startswith() and the `in` substring test are computed, not assumed.     *)
(* Numbers are integers in units of 10^-6: 0.1 is 100000.  The transport   *)
(* is taken to be reliable: every write to the client succeeds.            *)
(***************************************************************************)
EXTENDS Integers, Sequences, FiniteSets

VARIABLES
    server,       \* "serving" | "closed": the listener of run_server
    interrupted,  \* TRUE once KeyboardInterrupt reached run_server
    phase,        \* "idle" | "received" | "responded": the connection in hand
    request,      \* the request of the connection in hand
    rnd,          \* the values random() returned while handling it
    response,     \* what the handler sent for it
    prev          \* outcome of the request completed before this one

vars == <<server, interrupted, phase, request, rnd, response, prev>>

----------------------------------------------------------------------------
(* Bounds of the model *)

\* longest `lines` sequence a request carries
MaxLines == 2

\* random() returns u / RandMax for some u in 0 .. RandMax - 1
RandMax == 1000

----------------------------------------------------------------------------
(* Text *)

Whitespace == {" ", "\t", "\n", "\r"}

RECURSIVE LStrip(_)
LStrip(s) ==
    IF s = <<>> THEN s
    ELSE IF Head(s) \in Whitespace THEN LStrip(Tail(s)) ELSE s

RECURSIVE RStrip(_)
RStrip(s) ==
    IF s = <<>> THEN s
    ELSE IF s[Len(s)] \in Whitespace THEN RStrip(SubSeq(s, 1, Len(s) - 1)) ELSE s

\* str.strip()
Strip(s) == RStrip(LStrip(s))

\* str.startswith(p)
StartsWith(s, p) == Len(s) >= Len(p) /\ SubSeq(s, 1, Len(p)) = p

\* p in s
Contains(s, p) ==
    \E i \in 1 .. (Len(s) - Len(p) + 1) : SubSeq(s, i, i + Len(p) - 1) = p

kSlashes  == <<"/", "/">>
kHash     == <<"#">>
kImport   == <<"i", "m", "p", "o", "r", "t">>
kFrom     == <<"f", "r", "o", "m">>
kFunction == <<"f", "u", "n", "c", "t", "i", "o", "n">>
kDef      == <<"d", "e", "f", " ">>
kClass    == <<"c", "l", "a", "s", "s", " ">>

----------------------------------------------------------------------------
(* Scoring of one line *)

EmptyLo   == 100000
EmptyHi   == 300000
CommentLo == 200000
CommentHi == 500000
ImportLo  == 700000
ImportHi  == 900000
DefLo     == 600000
DefHi     == 800000
OtherLo   == 300000
OtherHi   == 700000

\* 10^-3 in the unit of the model: round(prob, 3) keeps multiples of it
Precision == 1000

IsBlank(line)   == Strip(line) = <<>>
IsComment(line) == StartsWith(Strip(line), kSlashes) \/ StartsWith(Strip(line), kHash)
HasImport(line) == Contains(line, kImport) \/ Contains(line, kFrom)
HasDef(line)    ==
    Contains(line, kFunction) \/ Contains(line, kDef) \/ Contains(line, kClass)

ClassifyImportFirst(line) ==
    IF IsBlank(line) THEN "empty"
    ELSE IF HasImport(line) THEN "import"
    ELSE IF IsComment(line) THEN "comment"
    ELSE IF HasDef(line) THEN "definition"
    ELSE "other"

\* the if / elif chain of the loop body
Classify(line) ==
    IF IsBlank(line) THEN "empty"
    ELSE IF IsComment(line) THEN "comment"
    ELSE IF HasImport(line) THEN "import"
    ELSE IF HasDef(line) THEN "definition"
    ELSE "other"

\* the arguments of random.uniform in each branch
Bounds(class) ==
    CASE class = "empty"      -> <<EmptyLo, EmptyHi>>
      [] class = "comment"    -> <<CommentLo, CommentHi>>
      [] class = "import"     -> <<ImportLo, ImportHi>>
      [] class = "definition" -> <<DefLo, DefHi>>
      [] class = "other"      -> <<OtherLo, OtherHi>>

UniformNoOffset(a, b, u) == a + (b * u) \div RandMax

\* random.uniform(a, b) = a + (b - a) * random(), with random() = u / RandMax
Uniform(a, b, u) == a + ((b - a) * u) \div RandMax

RoundNot(x) == x

\* round(x, 3): to the nearest multiple of 10^-3, a tie to the even one
Round3(x) ==
    LET q == x \div Precision
        m == x % Precision
    IN  IF 2 * m < Precision THEN q * Precision
        ELSE IF 2 * m > Precision THEN (q + 1) * Precision
        ELSE IF q % 2 = 0 THEN q * Precision
        ELSE (q + 1) * Precision

\* the value appended for one line
Score(line, u) ==
    LET b == Bounds(Classify(line))
    IN  Round3(Uniform(b[1], b[2], u))

----------------------------------------------------------------------------
(* JSON values.  An element of `lines` is [t, s]; the value under `lines` is *)
(* [t, s, items]; the parsed body is [t, keys, lines].                       *)

JString(s) == [t |-> "string", s |-> s]
JNumber    == [t |-> "number", s |-> <<>>]
JNull      == [t |-> "null", s |-> <<>>]

VArray(items) == [t |-> "array", s |-> <<>>, items |-> items]
VString(s)    == [t |-> "string", s |-> s, items |-> <<>>]
VObject(ks)   == [t |-> "object", s |-> <<>>, items |-> ks]
VNumber       == [t |-> "number", s |-> <<>>, items |-> <<>>]
VNull         == [t |-> "null", s |-> <<>>, items |-> <<>>]

Undecodable == [bytes |-> "undecodable", doc |-> [t |-> "null", keys |-> {}, lines |-> VNull]]
Malformed   == [bytes |-> "malformed", doc |-> [t |-> "null", keys |-> {}, lines |-> VNull]]
Document(d) == [bytes |-> "document", doc |-> d]

----------------------------------------------------------------------------
(* Responses *)

CorsHeaders ==
    { <<"Access-Control-Allow-Origin", "*">>,
      <<"Access-Control-Allow-Methods", "POST, OPTIONS">>,
      <<"Access-Control-Allow-Headers", "Content-Type">> }

JsonType == <<"Content-Type", "application/json">>

EmptyBody       == [kind |-> "empty", probabilities |-> <<>>, error |-> ""]
ErrorBody(e)    == [kind |-> "error", probabilities |-> <<>>, error |-> e]
ScoresBody(ps)  == [kind |-> "probabilities", probabilities |-> ps, error |-> ""]
HtmlBody(e)     == [kind |-> "html", probabilities |-> <<>>, error |-> e]

\* nothing sent
NoResponse ==
    [statuses |-> <<>>, headers |-> {}, body |-> EmptyBody, escaped |-> "", draws |-> 0]

\* an exception that leaves do_POST: nothing was sent
Escaped(e) == [NoResponse EXCEPT !.escaped = e]

\* lines 47-54
Ok200(ps, n) ==
    [statuses |-> <<200>>, headers |-> {JsonType} \cup CorsHeaders,
     body |-> ScoresBody(ps), escaped |-> "", draws |-> n]

\* lines 56-61
Error500(e, n) ==
    [statuses |-> <<500>>, headers |-> {JsonType},
     body |-> ErrorBody(e), escaped |-> "", draws |-> n]

\* lines 63-64
NotFound404 ==
    [statuses |-> <<404>>, headers |-> {}, body |-> EmptyBody, escaped |-> "", draws |-> 0]

\* BaseHTTPRequestHandler.send_error(501) for a method with no do_<method>
Unsupported501 ==
    [statuses |-> <<501>>,
     headers |-> { <<"Content-Type", "text/html;charset=utf-8">>, <<"Connection", "close">> },
     body |-> HtmlBody("Unsupported method"), escaped |-> "", draws |-> 0]

----------------------------------------------------------------------------
(* do_POST *)

\* rfile.read(content_length): a length shorter than the body cuts the JSON
\* text, and no proper prefix of the text of a JSON object parses
Read(req) ==
    IF req.contentLength = "short" /\ req.body.bytes = "document"
    THEN Malformed
    ELSE req.body

GetLinesRequired(doc) == IF "lines" \in doc.keys THEN doc.lines ELSE VNull

\* request_data.get('lines', [])
GetLines(doc) == IF "lines" \in doc.keys THEN doc.lines ELSE VArray(<<>>)

\* what `for line in lines` iterates over
Iterable(v) == v.t \in {"array", "string", "object"}
Items(v) ==
    IF v.t = "string" THEN [i \in 1 .. Len(v.s) |-> JString(<<v.s[i]>>)]
    ELSE v.items

RECURSIVE ScoreSkipping(_, _, _, _)
ScoreSkipping(items, r, i, acc) ==
    IF i > Len(items) THEN [ok |-> TRUE, probabilities |-> acc, draws |-> Len(acc)]
    ELSE IF items[i].t # "string" THEN ScoreSkipping(items, r, i + 1, acc)
    ELSE ScoreSkipping(items, r, i + 1, Append(acc, Score(items[i].s, r[Len(acc) + 1])))

RECURSIVE ScorePrepending(_, _, _, _)
ScorePrepending(items, r, i, acc) ==
    IF i > Len(items) THEN [ok |-> TRUE, probabilities |-> acc, draws |-> i - 1]
    ELSE IF items[i].t # "string" THEN [ok |-> FALSE, probabilities |-> acc, draws |-> i - 1]
    ELSE ScorePrepending(items, r, i + 1, <<Score(items[i].s, r[i])>> \o acc)

\* the loop of lines 26-40 from item i on, acc the probabilities so far;
\* line.strip() raises on an item that is no string
RECURSIVE ScoreLines(_, _, _, _)
ScoreLines(items, r, i, acc) ==
    IF i > Len(items) THEN [ok |-> TRUE, probabilities |-> acc, draws |-> i - 1]
    ELSE IF items[i].t # "string" THEN [ok |-> FALSE, probabilities |-> acc, draws |-> i - 1]
    ELSE ScoreLines(items, r, i + 1, Append(acc, Score(items[i].s, r[i])))

\* the try block, lines 19-61
Predict(req, r) ==
    LET data == Read(req)
    IN  IF data.bytes = "undecodable" THEN Error500("UnicodeDecodeError", 0)
        ELSE IF data.bytes = "malformed" THEN Error500("JSONDecodeError", 0)
        ELSE IF data.doc.t # "object" THEN Error500("AttributeError", 0)
        ELSE LET lines == GetLines(data.doc)
             IN  IF ~Iterable(lines) THEN Error500("TypeError", 0)
                 ELSE LET res == ScoreLines(Items(lines), r, 1, <<>>)
                      IN  IF res.ok THEN Ok200(res.probabilities, res.draws)
                          ELSE Error500("AttributeError", res.draws)

DoPostAnyPath(req, r) ==
    IF req.contentLength = "absent" THEN Escaped("TypeError")
    ELSE IF req.contentLength = "garbage" THEN Escaped("ValueError")
    ELSE Predict(req, r)

\* do_POST: int(self.headers['Content-Length']) on line 16 is outside the try
DoPost(req, r) ==
    IF req.path = "/predict"
    THEN IF req.contentLength = "absent" THEN Escaped("TypeError")
         ELSE IF req.contentLength = "garbage" THEN Escaped("ValueError")
         ELSE Predict(req, r)
    ELSE NotFound404

DoOptionsPredictOnly(req) ==
    IF req.path = "/predict"
    THEN [statuses |-> <<200>>, headers |-> CorsHeaders, body |-> EmptyBody,
          escaped |-> "", draws |-> 0]
    ELSE NotFound404

\* do_OPTIONS
DoOptions(req) ==
    [statuses |-> <<200>>, headers |-> CorsHeaders, body |-> EmptyBody,
     escaped |-> "", draws |-> 0]

\* the handler class defines do_POST and do_OPTIONS only; the base class
\* calls do_<method> and answers 501 when the class has no such method
Dispatch(req, r) ==
    IF req.method = "POST" THEN DoPost(req, r)
    ELSE IF req.method = "OPTIONS" THEN DoOptions(req)
    ELSE Unsupported501

----------------------------------------------------------------------------
(* The requests the model sends *)

Lines ==
    { <<>>,
      <<" ", "\t">>,
      <<"#", " ">> \o kImport,
      <<" ">> \o kSlashes \o <<"x">>,
      kImport \o <<" ", "o", "s">>,
      kFrom \o <<" ">> \o kDef,
      kClass \o <<"A">>,
      <<"d", "e", "f", "x">>,
      <<"x", "=", "1">> }

Elems == {JString(l) : l \in Lines} \cup {JNumber, JNull}

ElemSeqs == UNION {[1 .. n -> Elems] : n \in 0 .. MaxLines}

LinesValues ==
    {VArray(q) : q \in ElemSeqs}
        \cup {VString(<<"#", "x">>), VObject(<<JString(kImport)>>), VNumber, VNull}

ExtraKeys == {"file"}

Docs ==
    {[t |-> "object", keys |-> ks \cup {"lines"}, lines |-> v] :
        v \in LinesValues, ks \in SUBSET ExtraKeys}
        \cup {[t |-> "object", keys |-> ks, lines |-> VNull] : ks \in SUBSET ExtraKeys}
        \cup {[t |-> tt, keys |-> {}, lines |-> VNull] :
                tt \in {"array", "string", "number", "null"}}

Bodies == {Undecodable, Malformed} \cup {Document(d) : d \in Docs}

FewBodies ==
    { Undecodable, Malformed,
      Document([t |-> "object", keys |-> {}, lines |-> VNull]),
      Document([t |-> "object", keys |-> {"lines"},
                lines |-> VArray(<<JString(kImport)>>)]) }

Methods == {"POST", "OPTIONS", "GET", "DELETE"}
Paths   == {"/predict", "/predict/", "/"}
Lengths == {"absent", "garbage", "short", "exact"}

Requests ==
    {[method |-> "POST", path |-> "/predict", contentLength |-> "exact", body |-> b] :
        b \in Bodies}
        \cup {q \in [method : Methods, path : Paths, contentLength : Lengths, body : FewBodies] :
                q.contentLength = "short" => q.body.bytes = "document"}

NoRequest == [method |-> "", path |-> "", contentLength |-> "", body |-> Malformed]

\* values of random() the server specification draws from: the least, a
\* middle and the greatest
DrawSample == {0, RandMax \div 2, RandMax - 1}

\* every value of random()
DrawAll == 0 .. (RandMax - 1)

----------------------------------------------------------------------------
(* The server *)

\* the status a request ended with, 0 when nothing was sent
Outcome(resp) ==
    IF resp.statuses = <<>> THEN 0 ELSE resp.statuses[Len(resp.statuses)]

AfterRequestDiesOnError(resp) == IF resp.statuses = <<200>> THEN "serving" ELSE "closed"

\* serve_forever: the next request is served whatever the handler did; an
\* exception that left the handler is reported by the socket server
AfterRequest(resp) == "serving"

Init ==
    /\ server = "serving"
    /\ interrupted = FALSE
    /\ phase = "idle"
    /\ request = NoRequest
    /\ rnd = <<>>
    /\ response = NoResponse
    /\ prev = -1

\* a connection is accepted and its request line, headers and body arrive
Receive ==
    /\ server = "serving"
    /\ phase = "idle"
    /\ \E q \in Requests : request' = q
    /\ phase' = "received"
    /\ UNCHANGED <<server, interrupted, rnd, response, prev>>

\* the handler runs to its end, drawing from D for each of at most n items
HandleWith(D, n) ==
    /\ server = "serving"
    /\ phase = "received"
    /\ \E r \in [1 .. n -> D] :
          LET out == Dispatch(request, r)
          IN  /\ response' = out
              /\ rnd' = SubSeq(r, 1, out.draws)
    /\ phase' = "responded"
    /\ UNCHANGED <<server, interrupted, request, prev>>

Handle == HandleWith(DrawSample, MaxLines)

\* the connection is shut down and serve_forever goes on to the next one
Complete ==
    /\ server = "serving"
    /\ phase = "responded"
    /\ prev' = Outcome(response)
    /\ server' = AfterRequest(response)
    /\ phase' = "idle"
    /\ request' = NoRequest
    /\ rnd' = <<>>
    /\ response' = NoResponse
    /\ UNCHANGED interrupted

\* KeyboardInterrupt in run_server: the listener is closed
Interrupt ==
    /\ server = "serving"
    /\ server' = "closed"
    /\ interrupted' = TRUE
    /\ phase' = "idle"
    /\ request' = NoRequest
    /\ rnd' = <<>>
    /\ response' = NoResponse
    /\ UNCHANGED prev

Next == Receive \/ Handle \/ Complete \/ Interrupt

Spec == Init /\ [][Next]_vars

----------------------------------------------------------------------------
(* Scoring alone: one-line requests, every value of random() *)

OneLineRequests ==
    {[method |-> "POST", path |-> "/predict", contentLength |-> "exact",
      body |-> Document([t |-> "object", keys |-> {"lines"},
                         lines |-> VArray(<<JString(l)>>)])] : l \in Lines}

ScoreInit ==
    /\ server = "serving"
    /\ interrupted = FALSE
    /\ phase = "received"
    /\ request \in OneLineRequests
    /\ rnd = <<>>
    /\ response = NoResponse
    /\ prev = -1

HandleAll == HandleWith(DrawAll, 1)

ScoreNext == HandleAll

ScoreSpec == ScoreInit /\ [][ScoreNext]_vars

----------------------------------------------------------------------------
(* Properties *)

Responded == phase = "responded"

PredictPost == request.method = "POST" /\ request.path = "/predict"

\* the body arrives whole and parses to a JSON object
ObjectBody ==
    /\ request.contentLength = "exact"
    /\ request.body.bytes = "document"
    /\ request.body.doc.t = "object"

\* ... whose `lines` is a sequence of strings
ValidLines ==
    /\ ObjectBody
    /\ "lines" \in request.body.doc.keys
    /\ request.body.doc.lines.t = "array"
    /\ \A i \in 1 .. Len(request.body.doc.lines.items) :
          request.body.doc.lines.items[i].t = "string"

SentLines == request.body.doc.lines.items
Probabilities == response.body.probabilities
Sent(status) == \E i \in 1 .. Len(response.statuses) : response.statuses[i] = status

\* C1: a POST /predict whose body is an object with `lines` a sequence of
\* strings is answered 200 with exactly one probability per line, the i-th
\* being the score drawn for the i-th line.
C1_OnePerLineInOrder ==
    (Responded /\ PredictPost /\ ValidLines) =>
        /\ response.statuses = <<200>>
        /\ response.body.kind = "probabilities"
        /\ Len(Probabilities) = Len(SentLines)
        /\ Len(rnd) = Len(SentLines)
        /\ \A i \in 1 .. Len(SentLines) :
              Probabilities[i] = Score(SentLines[i].s, rnd[i])

C1_Witness ==
    /\ Responded /\ PredictPost /\ ValidLines
    /\ Len(SentLines) = 2
    /\ Classify(SentLines[1].s) = "import"
    /\ Classify(SentLines[2].s) = "empty"
    /\ Len(Probabilities) = 2
    /\ Probabilities[1] > Probabilities[2]

\* the draw of line i of the request in hand, from the interval [lo, hi]
DrawOf(i, lo, hi) == Round3(Uniform(lo, hi, rnd[i]))

\* C2: each line is scored from the interval of the first rule it matches, in
\* the order blank, comment, import, definition, other, whatever the other
\* lines of the request are.
C2_FirstRuleWins ==
    (Responded /\ PredictPost /\ ValidLines /\ Sent(200)) =>
        \A i \in 1 .. Len(SentLines) :
            LET l == SentLines[i].s
                p == Probabilities[i]
            IN  /\ IsBlank(l) => p = DrawOf(i, EmptyLo, EmptyHi)
                /\ (~IsBlank(l) /\ IsComment(l)) => p = DrawOf(i, CommentLo, CommentHi)
                /\ (~IsBlank(l) /\ ~IsComment(l) /\ HasImport(l)) =>
                      p = DrawOf(i, ImportLo, ImportHi)
                /\ (~IsBlank(l) /\ ~IsComment(l) /\ ~HasImport(l) /\ HasDef(l)) =>
                      p = DrawOf(i, DefLo, DefHi)
                /\ (~IsBlank(l) /\ ~IsComment(l) /\ ~HasImport(l) /\ ~HasDef(l)) =>
                      p = DrawOf(i, OtherLo, OtherHi)

\* a comment that contains `import`, then a line with both `from` and `def `
C2_Witness ==
    /\ Responded /\ PredictPost /\ ValidLines /\ Sent(200)
    /\ Len(SentLines) = 2
    /\ IsComment(SentLines[1].s) /\ HasImport(SentLines[1].s)
    /\ Probabilities[1] <= CommentHi
    /\ HasImport(SentLines[2].s) /\ HasDef(SentLines[2].s)
    /\ Probabilities[2] >= ImportLo

\* C3 as claimed: every returned value lies in the half-open interval of its
\* line's class, the upper bound excluded.
C3_HalfOpenInterval ==
    (Responded /\ PredictPost /\ ValidLines /\ Sent(200)) =>
        \A i \in 1 .. Len(SentLines) :
            LET b == Bounds(Classify(SentLines[i].s))
            IN  b[1] <= Probabilities[i] /\ Probabilities[i] < b[2]

\* C3 as amended: every returned value lies in the closed interval of its
\* line's class; rounding can return the upper bound itself.
C3_ClosedInterval ==
    (Responded /\ PredictPost /\ ValidLines /\ Sent(200)) =>
        \A i \in 1 .. Len(SentLines) :
            LET b == Bounds(Classify(SentLines[i].s))
            IN  b[1] <= Probabilities[i] /\ Probabilities[i] <= b[2]

\* a draw below the upper bound that rounding takes to the upper bound
C3_Witness ==
    /\ Responded /\ PredictPost /\ ValidLines /\ Sent(200)
    /\ Len(SentLines) = 1
    /\ LET b == Bounds(Classify(SentLines[1].s))
       IN  /\ Uniform(b[1], b[2], rnd[1]) < b[2]
           /\ Probabilities[1] = b[2]

\* C4: every probability of a 200 response is a multiple of 0.001, whatever
\* the draw was.
C4_ThreeDecimals ==
    (Responded /\ Sent(200)) =>
        \A i \in 1 .. Len(Probabilities) : Probabilities[i] % Precision = 0

\* a draw that is no multiple of 0.001 before it is rounded
C4_Witness ==
    /\ Responded /\ PredictPost /\ ValidLines /\ Sent(200)
    /\ Len(SentLines) = 1
    /\ LET b == Bounds(Classify(SentLines[1].s))
       IN  Uniform(b[1], b[2], rnd[1]) % Precision # 0
    /\ Probabilities[1] % Precision = 0

\* C5 as claimed: every POST /predict whose handling hits an error at any
\* step, reading the body by its Content-Length included, is answered 500
\* with a JSON error body, and no exception leaves the handler.
C5_EveryErrorAnswered500 ==
    (Responded /\ PredictPost /\ ~Sent(200)) =>
        /\ response.statuses = <<500>>
        /\ JsonType \in response.headers
        /\ response.body.kind = "error"
        /\ response.escaped = ""

C7_CorsOnEvery200 ==
    Responded =>
        /\ Sent(200) => CorsHeaders \subseteq response.headers
        /\ request.method = "OPTIONS" =>
              /\ response.statuses = <<200>>
              /\ response.headers = CorsHeaders
              /\ response.body.kind = "empty"
              /\ response.escaped = ""
              /\ response.draws = 0

\* OPTIONS on another path, with no Content-Length and a body that is no text
C7_Witness ==
    /\ Responded
    /\ request.method = "OPTIONS" /\ request.path = "/"
    /\ request.contentLength = "absent"
    /\ request.body.bytes = "undecodable"
    /\ response.statuses = <<200>>

\* C8: whatever the earlier requests ended with, the server keeps serving
\* and a valid POST /predict is answered 200 with one probability per line;
\* the listener is closed by an interrupt and by nothing else.
C8_KeepsServing ==
    /\ (server = "closed") <=> interrupted
    /\ (Responded /\ PredictPost /\ ValidLines) =>
          /\ response.statuses = <<200>>
          /\ Len(Probabilities) = Len(SentLines)

\* a valid request answered 200 right after a request answered 500
C8_Witness ==
    /\ prev = 500
    /\ server = "serving"
    /\ Responded /\ PredictPost /\ ValidLines
    /\ Len(SentLines) = MaxLines
    /\ response.statuses = <<200>>

\* the request in hand with every key but `lines` removed from its body
WithoutExtraKeys ==
    [request EXCEPT !.body.doc.keys = @ \cap {"lines"}]

\* C9: a JSON object without `lines` is answered 200 with no probabilities,
\* and the keys other than `lines` change nothing in the response.
C9_LinesDefaultsToEmpty ==
    (Responded /\ PredictPost /\ ObjectBody) =>
        /\ "lines" \notin request.body.doc.keys =>
              /\ response.statuses = <<200>>
              /\ response.body = ScoresBody(<<>>)
              /\ rnd = <<>>
        /\ response = Dispatch(WithoutExtraKeys, rnd)

C9_Witness ==
    /\ Responded /\ PredictPost /\ ObjectBody
    /\ request.body.doc.keys = {"file"}
    /\ response.statuses = <<200>>
    /\ Probabilities = <<>>

\* `lines` can be iterated and one of its items is no string
UnscorableItem ==
    /\ ObjectBody
    /\ "lines" \in request.body.doc.keys
    /\ Iterable(request.body.doc.lines)
    /\ \E i \in 1 .. Len(Items(request.body.doc.lines)) :
          Items(request.body.doc.lines)[i].t # "string"

====
